---- MODULE Spec2Model ----
(***************************************************************************)
(* SOP compliance engine: the verification run (SOPVerifier driven by the   *)
(* CLI of main.py or by the dashboard of app2.py) and the reference         *)
(* ingestion (ReferenceIndexer, RequirementNormalizer).                     *)
(*                                                                         *)
(* Scores are cosine similarities in hundredths (0.35 is 35).  Embedding    *)
(* vectors are opaque: a record only says whether its embedding is a        *)
(* vector (TRUE) or the empty list [] the embedder leaves on failure        *)
(* (FALSE); the similarity of two vectors is drawn from ScoreVals.          *)
(***************************************************************************)
EXTENDS Integers, Sequences, FiniteSets, TLC

\* ---------------------------------------------------------------- bounds
MaxReqs == 2
MaxChunks == 2
MaxPassages == 2
MaxRows == 4

\* ------------------------------------------------------ program constants
LOW_THRESHOLD == 35
TOP_K == 3
\* mutant: one retry more
MaxRetriesOneMore == 3 + 1

max_retries == 3
normalizer_max_retries == 3

\* app1.py 19 and 75: "0.90 Auto-Pass"
HIGH_THRESHOLD == 90

ScoreVals == {34, 35, 91}

\* ------------------------------------------------------------- variables
VARIABLES
  frontend,               \* "main" (main.py verify), "app1" or "app2" (their tab 2)
  disk,                   \* what is stored under the key reference_index.json
  pc,                     \* position of the run
  reference_index,        \* SOPVerifier.reference_index
  sop_store,              \* SOPVerifier.sop_store
  sop_embeddings_matrix,  \* one entry per row: the sop_store position it came from
  i,                      \* verify_documents: loop position (1-based)
  gaps,                   \* verify_documents: gaps
  best_score,             \* verify_documents: best_score of the current requirement
  status,                 \* verify_documents: status of the current requirement
  justification,          \* verify_documents: justification
  sop_evidence,           \* verify_documents: sop_evidence
  attempt,                \* _llm_validation: attempt
  jury,                   \* what _llm_validation returned for the current requirement
  decisions,              \* the final (status, justification, sop_evidence) of each requirement done
  llm_calls,              \* adjudicator calls issued for the current requirement
  adjudicator_called,     \* whether the run has issued an adjudicator call
  report,                 \* the artifact written by the front end
  stub,                   \* the services behind the engine, when they are deterministic
  previous,               \* what an earlier verify_documents call on this engine returned
  \* ReferenceIndexer.process_and_index and RequirementNormalizer
  ipc,                    \* position of the ingestion
  fidx,                   \* position in file_paths (1-based)
  raw_chunks,             \* passages of the file being processed
  cidx,                   \* position in raw_chunks (1-based)
  retry_count,            \* _invoke_bedrock: retry_count
  bedrock_calls,          \* completion calls issued for the current passage
  response,               \* what the last normalize_text call got from the service
  reqs,                   \* what the last normalize_text call returned
  document_requirements,  \* process_and_index: document_requirements
  all_requirements,       \* process_and_index: all_requirements
  failed_files,           \* the files process_and_index has printed as failed
  \* SOPVerifier.ingest_sop and SOPVerifier._search_sop
  sop_document,           \* ingest_sop: raw_chunks of the last call whose parse_file returned
  search_scores,          \* _search_sop: scores
  search_results          \* _search_sop: what it returned

vvars == <<frontend, stub, previous, disk, pc, reference_index, sop_store,
           sop_embeddings_matrix,
           i, gaps, best_score, status, justification, sop_evidence, attempt,
           jury, decisions, llm_calls, adjudicator_called, report>>

ivars == <<ipc, fidx, raw_chunks, cidx, retry_count, bedrock_calls, response,
           reqs, document_requirements, all_requirements, failed_files>>

svars == <<sop_document, search_scores, search_results>>

vars == <<vvars, ivars, svars>>

\* ----------------------------------------------------------- data model
\* requirement_id as built by normalize_text: source-page-suffix, the suffix
\* being the ordinal or FAIL.
MkId(source, page, suffix) == [source |-> source, page |-> page, suffix |-> suffix]

\* app2.py: "FAIL" in r.get('requirement_id', '').  Sources are drawn from
\* names that do not contain FAIL, so the marker is the suffix.
IsFailed(r) == r.requirement_id.suffix = "FAIL"

\* A passage as parse_file returns it.
MkChunk(source, page) ==
  [text |-> source \o ":" \o ToString(page), page |-> page, source |-> source]

\* normalize_text, lines 49-56: the record of the ordinal-th requirement
MkRequirement(source_meta, ordinal, result_text, severity, text_chunk) ==
  [requirement_id        |-> MkId(source_meta.source, source_meta.page, ToString(ordinal)),
   full_requirement_text |-> result_text,
   original_text         |-> text_chunk,
   mandatory_level       |-> severity,
   source_document       |-> source_meta.source,
   page_number           |-> source_meta.page]

\* normalize_text, lines 61-68: the failure record
MkFailure(source_meta, text_chunk) ==
  [requirement_id        |-> MkId(source_meta.source, source_meta.page, "FAIL"),
   full_requirement_text |-> "FAILED TO NORMALIZE: " \o text_chunk,
   original_text         |-> text_chunk,
   mandatory_level       |-> "UNKNOWN",
   source_document       |-> source_meta.source,
   page_number           |-> source_meta.page]

\* embed_requirements: req['embedding'] = vector (TRUE) or [] (FALSE)
WithEmbedding(req, e) ==
  [key \in DOMAIN req \cup {"embedding"} |->
     IF key = "embedding" THEN e ELSE req[key]]

\* mutant: a failing batch is lost
EmbedRequirementsOrNothing(requirements, ok) ==
  IF ok THEN [k \in 1..Len(requirements) |-> WithEmbedding(requirements[k], TRUE)]
  ELSE <<>>

\* mutant: the failure is caught per record and hits the first one alone
EmbedRequirementsEach(requirements, ok) ==
  [k \in 1..Len(requirements) |-> WithEmbedding(requirements[k], ok \/ k > 1)]

\* embed_requirements: every record of the batch gets a vector, or every
\* record gets [] when the model raised.
EmbedRequirements(requirements, ok) ==
  [k \in 1..Len(requirements) |-> WithEmbedding(requirements[k], ok)]

\* Records a persisted index can hold: a requirement, a failure record, and a
\* requirement of a document whose embedding batch failed.
ReqPool ==
  LET a == MkChunk("A", 1)
      b == MkChunk("B", 1)
  IN { WithEmbedding(MkRequirement(a, 1, "a1", "MUST", a.text), TRUE),
       WithEmbedding(MkFailure(a, a.text), TRUE),
       WithEmbedding(MkRequirement(b, 1, "b1", "SHOULD", b.text), FALSE) }

\* ----------------------------------------------- the persisted document
\* json.dumps(data, indent=2) (indexer.py 67) and json.load / json.loads
\* (verifier.py 62, 67).  A JSON document is held as what its text denotes:
\* an array of objects, each a function from its keys to JSON values, a JSON
\* value being [json |-> kind, v |-> content].  The encoder picks the kind by
\* the Python type of the value: str, int (page_number) or list (embedding).
JsonKind(key) ==
  IF key = "page_number" THEN "number"
  ELSE IF key = "embedding" THEN "array" ELSE "string"

JsonEncodeObject(rec) == [k \in DOMAIN rec |-> [json |-> JsonKind(k), v |-> rec[k]]]

JsonDumps(data) == [n \in 1..Len(data) |-> JsonEncodeObject(data[n])]

\* the decoder: a string gives a str, a number without fraction an int, an
\* array a list
JsonDecodeObject(obj) == [k \in DOMAIN obj |-> obj[k].v]

\* mutant: the records come back in reverse order
JsonLoadsReversed(doc) == [n \in 1..Len(doc) |-> JsonDecodeObject(doc[Len(doc) + 1 - n])]

JsonLoads(doc) == [n \in 1..Len(doc) |-> JsonDecodeObject(doc[n])]

\* What the key holds: a complete document ("ok"), nothing ("missing"), a
\* text json.load rejects ("malformed"), or the beginning of a document whose
\* writer has opened the file and not finished ("truncated": any proper
\* prefix of the text of a non-empty array, the empty file included, is no
\* JSON).
Stored(index) == [state |-> "ok", index |-> JsonDumps(index)]

Truncated == [state |-> "truncated", index |-> <<>>]

SeqsUpTo(S, n) == UNION { [1..k -> S] : k \in 0..n }

IndexPool == SeqsUpTo(ReqPool, MaxReqs)

DiskPool ==
  { Stored(ix) : ix \in IndexPool }
    \cup { [state |-> "missing", index |-> <<>>],
           [state |-> "malformed", index |-> <<>>] }

\* Python truthiness of a string
Truthy(s) == s /= ""

\* ------------------------------------------------------- _search_sop
\* np.argsort(scores): indices in ascending score order.  The default kind
\* is not a stable sort, so the order among equal scores is whatever the
\* build gives: every ascending order is a possible result.
ArgSorts(scores) ==
  LET n == Len(scores)
  IN { order \in [1..n -> 1..n] :
         /\ \A p, q \in 1..n : p /= q => order[p] /= order[q]
         /\ \A p \in 1..n - 1 : scores[order[p]] <= scores[order[p + 1]] }

\* The result of np.argsort that keeps equal scores in ascending index
\* order.  verify_documents reads the best score only, which is the same
\* for every member of ArgSorts.
ArgSort(scores) ==
  LET n == Len(scores)
      Rank(j) == 1 + Cardinality({ k \in 1..n :
                      \/ scores[k] < scores[j]
                      \/ (scores[k] = scores[j] /\ k < j) })
  IN [p \in 1..n |-> CHOOSE j \in 1..n : Rank(j) = p]

\* order[-top_k:]
LastK(order, k) ==
  LET n == Len(order)
  IN IF n <= k THEN order ELSE SubSeq(order, n - k + 1, n)

\* order[::-1]
Reverse(order) == [p \in 1..Len(order) |-> order[Len(order) + 1 - p]]

\* _search_sop: scores[r] is the dot product of matrix row r with the query.
\* An empty matrix (size == 0) gives no result.
SearchSopBy(scores, order, top_k) ==
  IF Len(scores) = 0 THEN <<>>
  ELSE LET top_indices == Reverse(LastK(order, top_k))
       IN [p \in 1..Len(top_indices) |->
             [chunk |-> top_indices[p], score |-> scores[top_indices[p]]]]

SearchSop(scores, top_k) == SearchSopBy(scores, ArgSort(scores), top_k)

\* best_score = relevant_chunks[0]['score'] if relevant_chunks else 0
BestScore(relevant_chunks) ==
  IF relevant_chunks = <<>> THEN 0 ELSE relevant_chunks[1].score

\* mutant: the threshold itself counts as too weak
AutoMissingInclusive(relevant_chunks, best) ==
  relevant_chunks = <<>> \/ best <= LOW_THRESHOLD

\* if not relevant_chunks or best_score < 0.35
AutoMissing(relevant_chunks, best) ==
  relevant_chunks = <<>> \/ best < LOW_THRESHOLD

NoRelevantJustification(best) ==
  "No relevant SOP sections found (Max Similarity: " \o ToString(best) \o "/100)."

\* --------------------------------------------------- _llm_validation
\* What one attempt can meet: invoke_model (or reading its body) raises, or
\* it yields a text: one without '{', one with '{' that json.loads rejects,
\* or a JSON object.  An object is a function from some of its keys to
\* strings.
LLMKeys == {"status", "justification", "sop_evidence"}

MkObj(st, ev) == [k \in LLMKeys |->
                    IF k = "status" THEN st
                    ELSE IF k = "sop_evidence" THEN ev ELSE "J"]

Restrict(f, D) == [k \in D |-> f[k]]

LLMObjects ==
  { MkObj("PRESENT", ev) : ev \in {"quote", "", "Not Found"} }
    \cup { MkObj("PARTIAL", "quote"), MkObj("MISSING", "Not Found"),
           MkObj("COMPLIANT", "quote") }
    \cup { Restrict(MkObj("PRESENT", "quote"), {"status", "justification"}),
           Restrict(MkObj("PARTIAL", "quote"), {"status"}),
           Restrict(MkObj("PRESENT", "quote"), {}) }

LLMTexts ==
  { [kind |-> "nobrace"], [kind |-> "badjson"] }
    \cup { [kind |-> "object", data |-> d] : d \in LLMObjects }

\* dict.get(key, default)
Get(data, key, default) == IF key \in DOMAIN data THEN data[key] ELSE default

\* mutant: the status is passed on as the adjudicator wrote it
ParseVerdictUnchecked(data) ==
  [status        |-> Get(data, "status", "MISSING"),
   justification |-> Get(data, "justification", "LLM parsed."),
   sop_evidence  |-> Get(data, "sop_evidence", "Not Found")]

\* lines 263-271: the verdict read from a parsed object
ParseVerdict(data) ==
  LET st == Get(data, "status", "MISSING")
  IN [status        |-> IF st \notin {"PRESENT", "PARTIAL", "MISSING"}
                        THEN "MISSING" ELSE st,
      justification |-> Get(data, "justification", "LLM parsed."),
      sop_evidence  |-> Get(data, "sop_evidence", "Not Found")]

\* line 273
Unparseable ==
  [status |-> "MISSING", justification |-> "LLM output unparseable",
   sop_evidence |-> "Not Found"]

\* line 287
LLMError ==
  [status |-> "MISSING", justification |-> "LLM Error.", sop_evidence |-> "Not Found"]

\* ------------------------------------------------- verify_documents
\* lines 130-137
NoEvidence(best) ==
  [status |-> "MISSING", justification |-> NoRelevantJustification(best),
   sop_evidence |-> "Not Found"]

\* mutant: no enforcement
EnforceNothing(v) == v

\* lines 142-147: ENFORCEMENT RULES
Enforce(v) ==
  IF v.status = "PRESENT" /\ (~Truthy(v.sop_evidence) \/ v.sop_evidence = "Not Found")
  THEN [status |-> "MISSING",
        justification |-> "LLM returned PRESENT but provided no SOP evidence. treated as MISSING.",
        sop_evidence |-> "Not Found"]
  ELSE v

\* lines 150-160; pos is the requirement's position in the index
MkGap(req, pos, v) ==
  [pos |-> pos, requirement_id |-> req.requirement_id, status |-> v.status,
   sop_evidence |-> v.sop_evidence, justification |-> v.justification]

\* mutant: every requirement is recorded
RecordGapAlways(gs, req, pos, v) == Append(gs, MkGap(req, pos, v))

\* mutant: the newest gap goes first
RecordGapFront(gs, req, pos, v) ==
  IF v.status \in {"MISSING", "PARTIAL"} THEN <<MkGap(req, pos, v)>> \o gs ELSE gs

RecordGap(gs, req, pos, v) ==
  IF v.status \in {"MISSING", "PARTIAL"} THEN Append(gs, MkGap(req, pos, v)) ELSE gs

\* line 289, after the for loop
LLMMaxRetries ==
  [status |-> "MISSING", justification |-> "LLM Max Retries.", sop_evidence |-> "Not Found"]

\* mutant: the last failure continues too, so the loop runs out
AttemptResultNoReturn(out, att) ==
  IF out = [kind |-> "raise"] \/ out = [kind |-> "badjson"]
  THEN [kind |-> "continue"]
  ELSE IF out = [kind |-> "nobrace"]
       THEN [kind |-> "return", v |-> Unparseable]
       ELSE [kind |-> "return", v |-> ParseVerdict(out.data)]

\* One pass of the for loop of _llm_validation (lines 228-287) on attempt att:
\* out is "raise" when invoke_model or reading its body raised, else the text.
\* json.loads raising on a text with '{' lands in the same except clause.
AttemptResult(out, att) ==
  IF out = [kind |-> "raise"] \/ out = [kind |-> "badjson"]
  THEN IF att < max_retries
       THEN [kind |-> "continue"]
       ELSE [kind |-> "return", v |-> LLMError]
  ELSE IF out = [kind |-> "nobrace"]
       THEN [kind |-> "return", v |-> Unparseable]
       ELSE [kind |-> "return", v |-> ParseVerdict(out.data)]

LLMOutcomes == { [kind |-> "raise"] } \cup LLMTexts

\* ------------------------------------------------------------ the run
\* An exception no handler of the engine catches: main.py lets it end the
\* process; app1.py and app2.py show it (except Exception, app1.py 101-102,
\* app2.py 225-227).
Raised == IF frontend = "main" THEN "crashed" ELSE "error_shown"

\* The services behind the engine.  The similarity of two stored vectors and
\* the answer of a deterministic adjudicator are functions of their input: a
\* value met once is met again.  With fixed set, memo keeps for each
\* requirement record met (its text and vector, against the store of this
\* engine, give the scores, the chunks retrieved and so the prompt) what the
\* run uses of them: the best score of its retrieval and what the
\* adjudicator did with its prompt.  Without it the services are live and
\* every call may differ.
LiveServices == [fixed |-> FALSE, memo |-> <<>>]

DeterministicServices == [fixed |-> TRUE, memo |-> <<>>]

NoAnswer == [kind |-> "none"]

Known(req) == stub.fixed /\ req \in DOMAIN stub.memo

\* memo with the entry of req set
Memoized(req, entry) ==
  [r \in (DOMAIN stub.memo) \cup {req} |-> IF r = req THEN entry ELSE stub.memo[r]]

\* the scores np.dot can give for requirement req (line 172)
ScoreChoices(req) ==
  { scores \in [1..Len(sop_embeddings_matrix) -> ScoreVals] :
      Known(req) => BestScore(SearchSop(scores, TOP_K)) = stub.memo[req].best }

\* what invoke_model can do with the prompt of requirement req (lines 236-243)
AnswerChoices(req) ==
  IF Known(req) /\ stub.memo[req].out /= NoAnswer
  THEN {stub.memo[req].out} ELSE LLMOutcomes

NoResult == [returned |-> FALSE, gaps |-> <<>>]

\* mutant: the list of an earlier call is kept
FreshGapsKept(gs) == gs

\* line 114: gaps = []
FreshGaps(gs) == <<>>

\* no call of _llm_validation for the current requirement (yet)
NoJury == [status |-> "none", justification |-> "", sop_evidence |-> ""]

NoReport == [written |-> FALSE, gaps |-> <<>>]

\* SOPVerifier.__init__, lines 49-52, and a run that has not started
InitVerify ==
  /\ pc = "idle"
  /\ reference_index = <<>>
  /\ sop_store = <<>>
  /\ sop_embeddings_matrix = <<>>
  /\ i = 0
  /\ gaps = <<>>
  /\ best_score = 0
  /\ status = "unset"
  /\ justification = "unset"
  /\ sop_evidence = "unset"
  /\ attempt = 0
  /\ jury = NoJury
  /\ decisions = <<>>
  /\ llm_calls = 0
  /\ adjudicator_called = FALSE
  /\ report = NoReport
  /\ previous = NoResult
  /\ sop_document = <<>>

\* No _search_sop call is followed on its own.
NotSearched == [returned |-> FALSE, results |-> <<>>]

InitSearch ==
  /\ search_scores = <<>>
  /\ search_results = NotSearched

\* load_reference_index, and what its caller does when it raises
\* (main.py 34-38 returns; app1.py 101-102 and app2.py 225-227 show the
\* error).
LoadReferenceIndex ==
  /\ pc = "idle"
  /\ IF disk.state = "ok"
     THEN /\ reference_index' = JsonLoads(disk.index)
          /\ pc' = "index_loaded"
     ELSE /\ pc' = (IF frontend = "main" THEN "load_failed" ELSE "error_shown")
          /\ UNCHANGED reference_index
  /\ UNCHANGED <<frontend, stub, previous, disk, sop_store, sop_embeddings_matrix, i, gaps,
                 best_score, status, justification, sop_evidence, attempt,
                 jury, decisions, llm_calls, adjudicator_called, report, ivars, svars>>

\* app2.py 151-159: HARD RULE CHECKS (st.stop() ends the script run)
HardRuleViolated(index) ==
  index = <<>> \/ \E k \in 1..Len(index) : IsFailed(index[k])

HardRuleChecks ==
  /\ frontend = "app2"
  /\ pc = "index_loaded"
  /\ pc' = (IF HardRuleViolated(reference_index) THEN "stopped" ELSE "checked")
  /\ UNCHANGED <<frontend, stub, previous, disk, reference_index, sop_store, sop_embeddings_matrix,
                 i, gaps, best_score, status, justification, sop_evidence, attempt,
                 jury, decisions, llm_calls, adjudicator_called, report, ivars, svars>>

\* mutant: main.py goes on after a load that failed
ReadyToIngestLoadIgnored ==
  \/ (frontend = "main" /\ pc \in {"index_loaded", "load_failed"})
  \/ (frontend = "app1" /\ pc = "index_loaded")
  \/ (frontend = "app2" /\ pc = "checked")

\* Where each front end calls ingest_sop: main.py 41 and app1.py 73 right
\* after the load, app2.py 162 after the hard rule checks.
ReadyToIngest ==
  \/ (frontend \in {"main", "app1"} /\ pc = "index_loaded")
  \/ (frontend = "app2" /\ pc = "checked")

\* lines 96-103: the rows of the matrix, one per item with a non-empty embedding
BuildMatrix(items) ==
  LET F[k \in 0..Len(items)] ==
        IF k = 0 THEN <<>>
        ELSE IF items[k].embedding THEN Append(F[k - 1], k) ELSE F[k - 1]
  IN F[Len(items)]

\* ingest_sop: parse_file raises (missing file, unsupported format, unreadable
\* DOCX) or returns n chunks; embed_requirements gives every item a vector, or
\* every item [] when the model raised.
\* lines 82-89: the item built from a passage
SopItem(chunk) ==
  [full_requirement_text |-> chunk.text,
   text                  |-> chunk.text,
   page                  |-> chunk.page,
   source                |-> chunk.source]

\* mutant: the new items are added to the ones held
NewStoreExtended(store, embedded_items) == store \o embedded_items

\* line 93: self.sop_store = embedded_items
NewStore(store, embedded_items) == embedded_items

\* ingest_sop(file_path), lines 74-105
IngestSopCall(file_path) ==
  /\ \/ /\ pc' = Raised
        /\ UNCHANGED <<sop_store, sop_embeddings_matrix, sop_document>>
     \/ \E n \in 0..MaxChunks, embedded \in BOOLEAN :
          LET parsed == [k \in 1..n |-> MkChunk(file_path, k)]
              sop_items == [k \in 1..n |-> SopItem(parsed[k])]
              embedded_items == EmbedRequirements(sop_items, embedded)
          IN /\ sop_document' = parsed
             /\ sop_store' = NewStore(sop_store, embedded_items)
             /\ sop_embeddings_matrix' = BuildMatrix(embedded_items)
             /\ pc' = "sop_ingested"
  /\ UNCHANGED <<frontend, stub, previous, disk, reference_index, i, gaps, best_score, status,
                 justification, sop_evidence, attempt, jury, decisions, llm_calls,
                 adjudicator_called, report, ivars, search_scores, search_results>>

\* The SOP a front end is given (main.py --sop, the upload of the apps), and
\* another document for a caller that ingests again.
sop_path == "sop.pdf"

other_sop_path == "revised.pdf"

IngestSop ==
  /\ ReadyToIngest
  /\ IngestSopCall(sop_path)

\* A caller that holds the engine calls ingest_sop once more.
IngestSopAgain ==
  /\ pc = "sop_ingested"
  /\ \E file_path \in {sop_path, other_sop_path} : IngestSopCall(file_path)

\* verify_documents, lines 111-114
NotReadyBoth(index, store) == index = <<>> /\ store = <<>>

\* line 111: if not self.reference_index or not self.sop_store
NotReady(index, store) == index = <<>> \/ store = <<>>

VerifyDocumentsCall ==
  /\ IF NotReady(reference_index, sop_store)
     THEN /\ pc' = Raised
          /\ UNCHANGED <<i, gaps>>
     ELSE /\ gaps' = FreshGaps(gaps)
          /\ i' = 1
          /\ pc' = "verifying"
  /\ UNCHANGED <<frontend, stub, previous, disk, reference_index, sop_store, sop_embeddings_matrix,
                 best_score, status, justification, sop_evidence, attempt,
                 jury, decisions, llm_calls, adjudicator_called, report, ivars, svars>>

VerifyBegin ==
  /\ pc = "sop_ingested"
  /\ VerifyDocumentsCall

\* A caller that holds the engine calls verify_documents before ingest_sop,
\* or before load_reference_index too.
VerifyEarly ==
  /\ pc \in {"idle", "index_loaded", "checked"}
  /\ VerifyDocumentsCall

\* lines 149-160 and the step to the next requirement
Finish(v) ==
  /\ status' = v.status
  /\ justification' = v.justification
  /\ sop_evidence' = v.sop_evidence
  /\ gaps' = RecordGap(gaps, reference_index[i], i, v)
  /\ decisions' = Append(decisions, v)
  /\ i' = i + 1
  /\ pc' = "verifying"

\* lines 116-137: one requirement up to the decision.  With a non-empty
\* matrix an empty requirement embedding makes np.dot raise ValueError.
Retrieve ==
  /\ pc = "verifying"
  /\ i <= Len(reference_index)
  /\ IF sop_embeddings_matrix /= <<>> /\ ~reference_index[i].embedding
     THEN /\ pc' = Raised
          /\ UNCHANGED <<i, gaps, best_score, status, justification, sop_evidence,
                         attempt, jury, decisions, llm_calls, stub>>
     ELSE \E scores \in ScoreChoices(reference_index[i]) :
            LET relevant_chunks == SearchSop(scores, TOP_K)
                best == BestScore(relevant_chunks)
            IN /\ best_score' = best
               /\ stub' = (IF stub.fixed /\ ~Known(reference_index[i])
                           THEN [stub EXCEPT !.memo =
                                   Memoized(reference_index[i],
                                            [best |-> best, out |-> NoAnswer])]
                           ELSE stub)
               /\ llm_calls' = 0
               /\ attempt' = 0
               /\ jury' = NoJury
               /\ IF AutoMissing(relevant_chunks, best)
                  THEN Finish(NoEvidence(best))
                  ELSE /\ status' = "MISSING"
                       /\ justification' = "No evidence found."
                       /\ sop_evidence' = "Not Found"
                       /\ pc' = "llm"
                       /\ UNCHANGED <<i, gaps, decisions>>
  /\ UNCHANGED <<frontend, previous, disk, reference_index, sop_store,
                 sop_embeddings_matrix, adjudicator_called, report, ivars, svars>>

\* line 140 and one pass of the retry loop of _llm_validation, then the
\* enforcement rules and the gap record once it has returned.
LLMAttempt ==
  /\ pc = "llm"
  /\ llm_calls' = llm_calls + 1
  /\ adjudicator_called' = TRUE
  /\ \E out \in AnswerChoices(reference_index[i]) :
       LET r == AttemptResult(out, attempt)
       IN /\ stub' = (IF stub.fixed
                      THEN [stub EXCEPT !.memo =
                              Memoized(reference_index[i],
                                       [best |-> best_score, out |-> out])]
                      ELSE stub)
          /\ IF r.kind = "continue"
             THEN IF attempt < max_retries
                  THEN /\ attempt' = attempt + 1
                       /\ UNCHANGED <<i, gaps, status, justification, sop_evidence, pc,
                                      jury, decisions>>
                  ELSE /\ jury' = LLMMaxRetries
                       /\ Finish(Enforce(LLMMaxRetries))
                       /\ UNCHANGED attempt
             ELSE /\ jury' = r.v
                  /\ Finish(Enforce(r.v))
                  /\ UNCHANGED attempt
  /\ UNCHANGED <<frontend, previous, disk, reference_index, sop_store,
                 sop_embeddings_matrix, best_score, report, ivars, svars>>

\* line 162
VerifyReturn ==
  /\ pc = "verifying"
  /\ i > Len(reference_index)
  /\ pc' = "verified"
  /\ UNCHANGED <<frontend, stub, previous, disk, reference_index, sop_store, sop_embeddings_matrix,
                 i, gaps, best_score, status, justification, sop_evidence, attempt,
                 jury, decisions, llm_calls, adjudicator_called, report, ivars, svars>>

\* main.py 47-62: the report is written, then the summary reads
\* gap['full_reference_text'], a key no gap has.  app1.py 78-99 shows the
\* gaps, reading gap['atomic_requirement'], a key no gap has either, inside
\* its try.  app2.py 173-223 shows the gaps and offers the report when there
\* are any.
Report ==
  /\ pc = "verified"
  /\ IF frontend = "main"
     THEN /\ report' = [written |-> TRUE, gaps |-> gaps]
          /\ pc' = (IF gaps /= <<>> THEN "crashed" ELSE "reported")
     ELSE IF frontend = "app1"
     THEN /\ pc' = (IF gaps /= <<>> THEN "error_shown" ELSE "reported")
          /\ UNCHANGED report
     ELSE /\ report' = (IF gaps /= <<>> THEN [written |-> TRUE, gaps |-> gaps]
                        ELSE report)
          /\ pc' = "reported"
  /\ UNCHANGED <<frontend, stub, previous, disk, reference_index, sop_store, sop_embeddings_matrix,
                 i, gaps, best_score, status, justification, sop_evidence, attempt,
                 jury, decisions, llm_calls, adjudicator_called, ivars, svars>>

\* A caller that keeps the engine calls verify_documents once more, with the
\* index and the store as they are: lines 111-114 again.
VerifyAgain ==
  /\ pc = "verified"
  /\ ~previous.returned
  /\ previous' = [returned |-> TRUE, gaps |-> gaps]
  /\ gaps' = FreshGaps(gaps)
  /\ i' = 1
  /\ decisions' = <<>>
  /\ pc' = "verifying"
  /\ UNCHANGED <<frontend, stub, disk, reference_index, sop_store, sop_embeddings_matrix,
                 best_score, status, justification, sop_evidence, attempt,
                 jury, llm_calls, adjudicator_called, report, ivars, svars>>

NextVerify ==
  \/ LoadReferenceIndex
  \/ HardRuleChecks
  \/ IngestSop
  \/ VerifyBegin
  \/ Retrieve
  \/ LLMAttempt
  \/ VerifyReturn
  \/ Report

\* ---------------------------------------------------------- normalizer
\* What the completion service can answer to the decomposition prompt.  A
\* text is given by what json.loads makes of it after _parse_response has
\* cut it to its outermost [ ]: "invalid" when json.loads raises (prose, the
\* word NORMALIZATION_FAILED), else the value: an array of items, or a JSON
\* object.  An item is a JSON object (a function from its keys to strings)
\* or a JSON string.
Item(t, sev) == [kind |-> "object", data |-> [k \in {"requirement_text", "severity"} |->
                                               IF k = "severity" THEN sev ELSE t]]

ItemNoSeverity(t) == [kind |-> "object", data |-> [k \in {"requirement_text"} |-> t]]

ItemNoText(sev) == [kind |-> "object", data |-> [k \in {"severity"} |-> sev]]

StringItem == [kind |-> "string", data |-> <<>>]

NormalizerTexts ==
  { [text |-> "NORMALIZATION_FAILED", json |-> "invalid", items |-> <<>>],
    [text |-> "prose",                json |-> "invalid", items |-> <<>>],
    [text |-> "object",               json |-> "object",  items |-> <<>>],
    [text |-> "array",                json |-> "array",   items |-> <<>>],
    [text |-> "array",                json |-> "array",
       items |-> <<Item("r1", "MUST"), ItemNoSeverity("r2")>>],
    [text |-> "array",                json |-> "array",
       items |-> <<Item("r1", "MUST"), StringItem>>],
    [text |-> "array",                json |-> "array",
       items |-> <<ItemNoText("CRITICAL")>>] }

NoResponse == [text |-> "none", json |-> "none", items |-> <<>>]

\* _invoke_bedrock raised after its last attempt
Exhausted == [text |-> "raised", json |-> "none", items |-> <<>>]

\* _parse_response: the value of json.loads, or [] when anything raised
\* (lines 154-156).  A parsed value is [json, items].
ParseResponse(response_text) ==
  IF response_text.json = "invalid"
  THEN [json |-> "array", items |-> <<>>]
  ELSE [json |-> response_text.json, items |-> response_text.items]

\* normalize_text, lines 41-57: the loop over the parsed value raises
\* (AttributeError: 'str' object has no attribute 'get') on an item that is a
\* string, and on the keys of a JSON object.
EnrichRaises(requirements) ==
  \/ requirements.json = "object"
  \/ \E k \in 1..Len(requirements.items) : requirements.items[k].kind = "string"

\* mutant: the ordinal is the position enumerate gives, counted from 0
EnrichFromZero(requirements, text_chunk, source_meta) ==
  [k \in 1..Len(requirements.items) |->
     MkRequirement(source_meta, k - 1,
                   Get(requirements.items[k].data, "requirement_text", ""),
                   Get(requirements.items[k].data, "severity", "SHOULD"),
                   text_chunk)]

\* lines 40-57: the records built from the items of the parsed array
Enrich(requirements, text_chunk, source_meta) ==
  [k \in 1..Len(requirements.items) |->
     MkRequirement(source_meta, k,
                   Get(requirements.items[k].data, "requirement_text", ""),
                   Get(requirements.items[k].data, "severity", "SHOULD"),
                   text_chunk)]

Returns(value) == [raised |-> FALSE, reqs |-> value]

Raises == [raised |-> TRUE, reqs |-> <<>>]

\* mutant: the exception of _invoke_bedrock leaves normalize_text
NormalizeResultNoCatch(response_text, text_chunk, source_meta) ==
  IF response_text = Exhausted
  THEN Raises
  ELSE LET requirements == ParseResponse(response_text)
       IN IF EnrichRaises(requirements)
          THEN Returns(<<MkFailure(source_meta, text_chunk)>>)
          ELSE Returns(Enrich(requirements, text_chunk, source_meta))

\* normalize_text once _invoke_bedrock has returned response_text or raised
\* (response_text = Exhausted): lines 35-68.  Every exception is caught at
\* line 59.
NormalizeResult(response_text, text_chunk, source_meta) ==
  IF response_text = Exhausted
  THEN Returns(<<MkFailure(source_meta, text_chunk)>>)
  ELSE LET requirements == ParseResponse(response_text)
       IN IF EnrichRaises(requirements)
          THEN Returns(<<MkFailure(source_meta, text_chunk)>>)
          ELSE Returns(Enrich(requirements, text_chunk, source_meta))

\* mutant: one attempt more
InvokeResultOneMore(out, rc) ==
  IF out = [kind |-> "raise"]
  THEN IF rc < normalizer_max_retries
       THEN [kind |-> "retry"]
       ELSE [kind |-> "raise"]
  ELSE [kind |-> "return", text |-> out.text]

\* _invoke_bedrock, lines 100-135: one pass of the while loop with retry_count
\* rc; out is "raise" when the call or reading its body raised, else the text.
InvokeResult(out, rc) ==
  IF out = [kind |-> "raise"]
  THEN IF rc + 1 < normalizer_max_retries
       THEN [kind |-> "retry"]
       ELSE [kind |-> "raise"]
  ELSE [kind |-> "return", text |-> out.text]

NormalizerOutcomes ==
  { [kind |-> "raise"] } \cup { [kind |-> "text", text |-> t] : t \in NormalizerTexts }

\* ------------------------------------------------------------- indexer
\* process_and_index(file_paths)
file_paths == <<"A", "B">>

\* mutant: the exception of one file ends the loop over the files
AfterFileFailureAbort(f) == Len(file_paths) + 1

\* lines 55-56 and 35: the exception is printed and the for loop goes on with
\* the next file
AfterFileFailure(f) == f + 1

\* mutant: the list is assigned, not extended
ExtendReplace(list, items) == items

\* list.extend, lines 45 and 52
Extend(list, items) == list \o items

InitIngest ==
  /\ ipc = "parse"
  /\ fidx = 1
  /\ raw_chunks = <<>>
  /\ cidx = 1
  /\ retry_count = 0
  /\ bedrock_calls = 0
  /\ response = NoResponse
  /\ reqs = <<>>
  /\ document_requirements = <<>>
  /\ all_requirements = <<>>
  /\ failed_files = <<>>

\* lines 35-39 and 55-56: parse_file raises, which ends this file, or returns
\* the passages of the file.
ParseFile ==
  /\ ipc = "parse"
  /\ fidx <= Len(file_paths)
  /\ \/ /\ fidx' = AfterFileFailure(fidx)
        /\ failed_files' = Append(failed_files, file_paths[fidx])
        /\ UNCHANGED <<raw_chunks, cidx, document_requirements, ipc>>
     \/ \E n \in 0..MaxPassages :
          /\ raw_chunks' = [k \in 1..n |-> MkChunk(file_paths[fidx], k)]
          /\ cidx' = 1
          /\ document_requirements' = <<>>
          /\ ipc' = "normalize"
          /\ UNCHANGED <<fidx, failed_files>>
  /\ UNCHANGED <<vvars, svars, retry_count, bedrock_calls, response, reqs, all_requirements>>

\* line 44: normalize_text on the current passage, one completion call per
\* step; when _invoke_bedrock has returned or raised, the rest of
\* normalize_text and line 45.  An exception leaving normalize_text would
\* end the file at lines 55-56.
NormalizeAttempt ==
  /\ ipc = "normalize"
  /\ cidx <= Len(raw_chunks)
  /\ \E out \in NormalizerOutcomes :
       LET r == InvokeResult(out, retry_count)
           chunk == raw_chunks[cidx]
           text == IF r.kind = "return" THEN r.text ELSE Exhausted
           result == NormalizeResult(text, chunk.text, chunk)
       IN IF r.kind = "retry"
          THEN /\ retry_count' = retry_count + 1
               /\ UNCHANGED <<response, reqs, document_requirements, cidx, fidx, ipc,
                              failed_files>>
          ELSE /\ retry_count' = 0
               /\ response' = text
               /\ reqs' = result.reqs
               /\ IF result.raised
                  THEN /\ fidx' = AfterFileFailure(fidx)
                       /\ failed_files' = Append(failed_files, file_paths[fidx])
                       /\ ipc' = "parse"
                       /\ UNCHANGED <<document_requirements, cidx>>
                  ELSE /\ document_requirements' = Extend(document_requirements, result.reqs)
                       /\ cidx' = cidx + 1
                       /\ UNCHANGED <<fidx, ipc, failed_files>>
  /\ bedrock_calls' = (IF retry_count = 0 THEN 1 ELSE bedrock_calls + 1)
  /\ UNCHANGED <<vvars, svars, raw_chunks, all_requirements>>

\* lines 50-53
EmbedDocument ==
  /\ ipc = "normalize"
  /\ cidx > Len(raw_chunks)
  /\ \E ok \in BOOLEAN :
       all_requirements' =
         Extend(all_requirements, EmbedRequirements(document_requirements, ok))
  /\ fidx' = fidx + 1
  /\ ipc' = "parse"
  /\ UNCHANGED <<vvars, svars, raw_chunks, cidx, retry_count, bedrock_calls, response, reqs,
                 document_requirements, failed_files>>

\* mutant: the index is saved whatever was found
FoundAlways(list) == TRUE

\* line 59: if all_requirements
Found(list) == list /= <<>>

\* lines 58-64 and _save.  Nothing is saved when no requirement was found.
\* bucket_name, set at construction, is read here only: with "local" the key
\* is opened for writing, which empties the file (line 71), and the text is
\* written next (SaveLocalWrite); otherwise put_object replaces the object
\* at once, or raises, which _save passes on (lines 82-84).
Persist ==
  /\ ipc = "parse"
  /\ fidx > Len(file_paths)
  /\ IF ~Found(all_requirements)
     THEN /\ ipc' = "done"
          /\ UNCHANGED disk
     ELSE \E bucket_name \in {"local", "s3"} :
            IF bucket_name = "local"
            THEN /\ disk' = Truncated
                 /\ ipc' = "writing"
            ELSE \/ /\ disk' = Stored(all_requirements)
                    /\ ipc' = "done"
                 \/ /\ ipc' = "save_failed"
                    /\ UNCHANGED disk
  /\ UNCHANGED <<frontend, stub, previous, pc, reference_index, sop_store, sop_embeddings_matrix,
                 i, gaps, best_score, status, justification, sop_evidence, attempt,
                 jury, decisions, llm_calls, adjudicator_called, report,
                 fidx, raw_chunks, cidx, retry_count, bedrock_calls, response, reqs,
                 document_requirements, all_requirements, failed_files, svars>>

\* _save, lines 71-72: f.write and the close of the with block put the text
\* in the file, or raise (no space left) and leave what was written so far.
SaveLocalWrite ==
  /\ ipc = "writing"
  /\ \/ /\ disk' = Stored(all_requirements)
        /\ ipc' = "done"
     \/ /\ ipc' = "save_failed"
        /\ UNCHANGED disk
  /\ UNCHANGED <<frontend, stub, previous, pc, reference_index, sop_store, sop_embeddings_matrix,
                 i, gaps, best_score, status, justification, sop_evidence, attempt,
                 jury, decisions, llm_calls, adjudicator_called, report,
                 fidx, raw_chunks, cidx, retry_count, bedrock_calls, response, reqs,
                 document_requirements, all_requirements, failed_files, svars>>

NextIngest ==
  \/ ParseFile
  \/ NormalizeAttempt
  \/ EmbedDocument
  \/ Persist
  \/ SaveLocalWrite

\* --------------------------------------------------- specifications
\* A verification run against whatever the key holds.
Init ==
  /\ frontend \in {"main", "app1", "app2"}
  /\ disk \in DiskPool
  /\ stub = LiveServices
  /\ InitVerify
  /\ InitIngest
  /\ InitSearch

Next == NextVerify

Spec == Init /\ [][Next]_vars

\* The index an earlier ingestion has left under the key.
SeedIndex == <<CHOOSE r \in ReqPool : ~IsFailed(r) /\ r.embedding>>

\* An ingestion of file_paths by one ReferenceIndexer.
InitIngestRun ==
  /\ InitIngest
  /\ InitVerify
  /\ InitSearch
  /\ frontend = "main"
  /\ stub = LiveServices
  /\ disk \in { [state |-> "missing", index |-> <<>>], Stored(SeedIndex) }

SpecIngest == InitIngestRun /\ [][NextIngest]_vars

\* An engine that is asked to verify twice, behind it an embedding model and
\* an adjudicator stub that are deterministic.
InitTwice ==
  /\ frontend \in {"main", "app2"}
  /\ disk \in DiskPool
  /\ stub = DeterministicServices
  /\ InitVerify
  /\ InitIngest
  /\ InitSearch

NextTwice ==
  \/ NextVerify
  \/ VerifyAgain

SpecTwice == InitTwice /\ [][NextTwice]_vars

\* An ingestion, and a verification run that loads the same key while the
\* ingestion goes on or after it (two processes: main.py ingest and main.py
\* verify).
NextShared ==
  \/ NextIngest
  \/ LoadReferenceIndex

SpecShared == InitIngestRun /\ [][NextShared]_vars

\* A caller that holds one engine and calls its methods as it likes:
\* ingest_sop again, verify_documents before the engine is ready.
NextCalls ==
  \/ LoadReferenceIndex
  \/ HardRuleChecks
  \/ IngestSop
  \/ IngestSopAgain
  \/ VerifyBegin
  \/ VerifyEarly

SpecCalls == Init /\ [][NextCalls]_vars

\* A run of a front end, or of a caller that calls verify_documents before
\* the engine is ready.
NextEngine ==
  \/ NextVerify
  \/ VerifyEarly

SpecEngine == Init /\ [][NextEngine]_vars

\* _search_sop, lines 164-183, on a matrix of Len(search_scores) rows,
\* search_scores being the dot products of line 172.
Search ==
  /\ ~search_results.returned
  /\ \E order \in ArgSorts(search_scores) :
       search_results' = [returned |-> TRUE,
                          results  |-> SearchSopBy(search_scores, order, TOP_K)]
  /\ UNCHANGED <<vvars, ivars, sop_document, search_scores>>

InitSearchRun ==
  /\ InitVerify
  /\ InitIngest
  /\ frontend = "main"
  /\ stub = LiveServices
  /\ disk = [state |-> "missing", index |-> <<>>]
  /\ search_scores \in SeqsUpTo(ScoreVals, MaxRows)
  /\ search_results = NotSearched

SpecSearch == InitSearchRun /\ [][Search]_vars

\* ------------------------------------------------------------- claims
Last(q) == q[Len(q)]

\* The locals of verify_documents hold a finished requirement's values:
\* the one numbered Len(decisions).
Completed == pc /= "llm" /\ decisions /= <<>>

DowngradeJustification ==
  "LLM returned PRESENT but provided no SOP evidence. treated as MISSING."

\* C1: a requirement for which the adjudicator returned PRESENT with an empty
\* excerpt or "Not Found" ends MISSING, with the justification that notes the
\* inconsistency, and no requirement ever ends PRESENT without a non-empty
\* excerpt other than "Not Found".
C1_EvidenceGrounding ==
  /\ \A k \in 1..Len(decisions) :
       decisions[k].status = "PRESENT" =>
         decisions[k].sop_evidence \notin {"", "Not Found"}
  /\ status = "PRESENT" => sop_evidence \notin {"", "Not Found"}
  /\ (Completed /\ jury.status = "PRESENT" /\ jury.sop_evidence \in {"", "Not Found"}) =>
       /\ Last(decisions).status = "MISSING"
       /\ Last(decisions).justification = DowngradeJustification
       /\ status = "MISSING"
       /\ gaps /= <<>>
       /\ Last(gaps).pos = Len(decisions)
       /\ Last(gaps).status = "MISSING"

C1_Witness ==
  /\ pc = "verified"
  /\ Len(decisions) = 2
  /\ decisions[1].status = "PRESENT"
  /\ decisions[1].sop_evidence = "quote"
  /\ jury.status = "PRESENT"
  /\ jury.sop_evidence = ""
  /\ status = "MISSING"

GapsAt(k) == { g \in 1..Len(gaps) : gaps[g].pos = k }

\* C2: the gap list holds exactly one gap for each requirement that ended
\* PARTIAL or MISSING and none for one that ended PRESENT; no gap is PRESENT
\* and there are never more gaps than requirements in the index.
C2_GapsAreTheNonPresent ==
  /\ \A k \in 1..Len(decisions) :
       /\ decisions[k].status \in {"PARTIAL", "MISSING"} => Cardinality(GapsAt(k)) = 1
       /\ decisions[k].status = "PRESENT" => GapsAt(k) = {}
       /\ decisions[k].status \in {"PRESENT", "PARTIAL", "MISSING"}
  /\ \A g \in 1..Len(gaps) :
       /\ gaps[g].status /= "PRESENT"
       /\ gaps[g].pos \in 1..Len(decisions)
       /\ gaps[g].status = decisions[gaps[g].pos].status
       /\ gaps[g].requirement_id = reference_index[gaps[g].pos].requirement_id
  /\ Len(gaps) <= Len(reference_index)
  /\ report.written => report.gaps = gaps

C2_Witness ==
  /\ pc = "verified"
  /\ Len(decisions) = 2
  /\ decisions[1].status = "PRESENT"
  /\ decisions[2].status = "PARTIAL"
  /\ Len(gaps) = 1
  /\ gaps[1].pos = 2

\* The run holds an index that is empty or has a failure record.
TaintedRun == disk.state = "ok" /\ HardRuleViolated(JsonLoads(disk.index))

\* C3: with an empty index or one holding a DecompositionFailure record the
\* run never gets past the load: it is never ready to ingest, never
\* verifies, and produces no verification result.
C3_TaintedIndexRejected ==
  TaintedRun =>
    /\ ~ReadyToIngest
    /\ pc \notin {"sop_ingested", "verifying", "llm", "verified", "reported"}
    /\ ~report.written

\* C4: in a run whose index holds a DecompositionFailure record no
\* adjudicator call is issued.
C4_NoAdjudicatorOnTaintedIndex ==
  (disk.state = "ok" /\ \E k \in 1..Len(disk.index) : IsFailed(JsonLoads(disk.index)[k])) =>
    ~adjudicator_called

\* C5: in a run whose index is empty the target document is never ingested:
\* ingest_sop never returns.
C5_NoIngestOnEmptyIndex ==
  (disk.state = "ok" /\ disk.index = <<>>) => pc /= "sop_ingested"

\* C6: the adjudicator is invoked for a requirement exactly when its best
\* retrieval score is at least the low threshold; below it the requirement
\* ends MISSING with evidence "Not Found" and no adjudicator call.
C6_LowThresholdRouting ==
  /\ pc = "llm" => best_score >= LOW_THRESHOLD
  /\ llm_calls > 0 => best_score >= LOW_THRESHOLD
  /\ (Completed /\ best_score >= LOW_THRESHOLD) => (llm_calls > 0 /\ jury /= NoJury)
  /\ (Completed /\ best_score < LOW_THRESHOLD) =>
       /\ llm_calls = 0
       /\ jury = NoJury
       /\ status = "MISSING"
       /\ sop_evidence = "Not Found"
       /\ gaps /= <<>>
       /\ Last(gaps).pos = Len(decisions)
       /\ Last(gaps).sop_evidence = "Not Found"

C6_Witness ==
  /\ pc = "verified"
  /\ Len(decisions) = 2
  /\ decisions[1] = NoEvidence(LOW_THRESHOLD - 1)
  /\ best_score = LOW_THRESHOLD
  /\ llm_calls > 0
  /\ jury.status = "PARTIAL"

\* The justifications of an attempt that got an answer.
Answered == {"J", "LLM parsed.", "LLM output unparseable"}

\* C7: the step in which the last adjudicator attempt for a requirement fails
\* gives that requirement MISSING with the error justification, records its
\* gap and hands over to the next requirement: the run does not abort.
C7_JuryFailureIsolated ==
  [][ (pc = "llm" /\ attempt = max_retries /\ jury' /= jury
         /\ jury'.justification \notin Answered) =>
        /\ pc' = "verifying"
        /\ i' = i + 1
        /\ llm_calls' = max_retries + 1
        /\ status' = "MISSING"
        /\ justification' = "LLM Error."
        /\ sop_evidence' = "Not Found"
        /\ gaps' = Append(gaps, MkGap(reference_index[i], i, LLMError)) ]_vars

C7_Witness ==
  /\ pc = "verified"
  /\ Len(gaps) = 2
  /\ gaps[1].pos = 1
  /\ gaps[1].justification = "LLM Error."
  /\ gaps[2].pos = 2
  /\ gaps[2].status = "PARTIAL"
  /\ gaps[2].sop_evidence = "quote"

\* C8: gaps appear in index order, in the list verify_documents builds and
\* in the report written from it.
C8_GapsInIndexOrder ==
  /\ \A a, b \in 1..Len(gaps) : a < b => gaps[a].pos < gaps[b].pos
  /\ report.written =>
       \A a, b \in 1..Len(report.gaps) : a < b => report.gaps[a].pos < report.gaps[b].pos

C8_Witness ==
  /\ report.written
  /\ Len(report.gaps) = 2
  /\ report.gaps[1].pos = 1
  /\ report.gaps[2].pos = 2

\* C9: when the service output cannot be parsed as JSON (prose, the word
\* NORMALIZATION_FAILED) or is no array, normalize_text returns exactly one
\* failure record for the passage.
C9_OneFailureRecordOnBadOutput ==
  response.json \in {"invalid", "object"} =>
    (Len(reqs) = 1 /\ IsFailed(reqs[1]))

\* The step in which the last completion attempt for a passage fails.
ExhaustStep ==
  /\ ipc = "normalize"
  /\ cidx <= Len(raw_chunks)
  /\ retry_count = normalizer_max_retries - 1
  /\ response' = Exhausted
  /\ <<cidx, fidx>>' /= <<cidx, fidx>>

\* C10: at most 3 completion calls are issued per passage; when the last of
\* them fails normalize_text returns the single failure record of the
\* passage and process_and_index moves to the next passage of the file.
C10_NormalizerRetryCeiling ==
  [][ /\ bedrock_calls' <= normalizer_max_retries
      /\ ExhaustStep =>
           /\ bedrock_calls' = normalizer_max_retries
           /\ reqs' = <<MkFailure(raw_chunks[cidx], raw_chunks[cidx].text)>>
           /\ document_requirements' = document_requirements \o reqs'
           /\ cidx' = cidx + 1
           /\ fidx' = fidx
           /\ ipc' = "normalize" ]_vars

C10_Witness ==
  /\ ipc = "normalize"
  /\ Len(raw_chunks) = 2
  /\ cidx = 3
  /\ Len(document_requirements) = 3
  /\ IsFailed(document_requirements[1])
  /\ document_requirements[1].original_text = raw_chunks[1].text
  /\ document_requirements[2].requirement_id = MkId(raw_chunks[2].source, 2, "1")
  /\ document_requirements[3].requirement_id = MkId(raw_chunks[2].source, 2, "2")

\* A record as normalize_text returned it, before embed_requirements.
Unembedded(rec) == [k \in (DOMAIN rec) \ {"embedding"} |-> rec[k]]

\* What a step has added at the end of all_requirements.
Added == SubSeq(all_requirements', Len(all_requirements) + 1, Len(all_requirements'))

\* The step in which the processing of the current file raises.
FileFailureStep == failed_files' /= failed_files

\* The step in which the current file has been processed without error.
FileDoneStep == ipc = "normalize" /\ ipc' = "parse" /\ ~FileFailureStep

\* C11: a failure raised while a file is processed ends that file only: the
\* loop goes on with the next file and the index built so far is kept; a file
\* processed without error adds all its requirements, in order, to the index;
\* the build ends only when every file has been taken, and what it saves is
\* the index it built.
C11_PerFileIsolation ==
  [][ /\ FileFailureStep =>
           /\ fidx' = fidx + 1
           /\ ipc' = "parse"
           /\ all_requirements' = all_requirements
      /\ FileDoneStep =>
           /\ fidx' = fidx + 1
           /\ Len(all_requirements') = Len(all_requirements) + Len(document_requirements)
           /\ \A k \in 1..Len(document_requirements) :
                Unembedded(Added[k]) = document_requirements[k]
      /\ Len(all_requirements) <= Len(all_requirements')
      /\ SubSeq(all_requirements', 1, Len(all_requirements)) = all_requirements
      /\ ipc' \notin {"parse", "normalize"} =>
           Len(failed_files') + Cardinality({ all_requirements'[k].source_document :
                                               k \in 1..Len(all_requirements') })
             <= Len(file_paths)
      /\ ipc' \notin {"parse", "normalize"} => fidx' = Len(file_paths) + 1
      /\ (ipc' = "done" /\ ipc /= "done" /\ all_requirements /= <<>>) =>
           disk' = Stored(all_requirements) ]_vars

\* The first file failed, the second gave the index that was saved.
C11_Witness ==
  /\ ipc = "done"
  /\ failed_files = <<file_paths[1]>>
  /\ Len(all_requirements) = 2
  /\ \A k \in 1..2 : all_requirements[k].source_document = file_paths[2]
  /\ disk = Stored(all_requirements)

\* The step in which load_reference_index reads the key.
LoadStep == pc = "idle" /\ pc' /= "idle"

\* C12: a load of the key, whenever it happens during an ingestion, gets the
\* complete index the key held before or the complete index being saved; it
\* fails only when the key held nothing.
C12_LoadSeesWholeIndex ==
  [][ LoadStep =>
        \/ /\ pc' = "index_loaded"
           /\ reference_index' \in {SeedIndex, all_requirements}
        \/ disk.state = "missing" ]_vars

VerifyStep ==
  \/ pc \in {"sop_ingested", "verifying", "llm"}
  \/ (pc = "verified" /\ pc' = "verifying")

\* C14: with deterministic services a second verify_documents call on the
\* same engine runs to its end and returns the gap list the first call
\* returned, in the same order and with the same content; no step of
\* verify_documents changes the index, the store or its matrix.
C14_VerifyIdempotent ==
  [][ /\ VerifyStep =>
           UNCHANGED <<reference_index, sop_store, sop_embeddings_matrix, disk>>
      /\ (previous'.returned /\ pc' = "verified") => gaps' = previous'.gaps
      /\ (previous.returned /\ pc \in {"verifying", "llm"}) =>
           pc' \in {"verifying", "llm", "verified"} ]_vars

\* Both calls have returned the same two gaps: one decided without the
\* adjudicator, one after the adjudicator failed on every attempt.
C14_Witness ==
  /\ previous.returned
  /\ pc = "verified"
  /\ Len(gaps) = 2
  /\ gaps = previous.gaps
  /\ gaps[1].justification = NoRelevantJustification(LOW_THRESHOLD - 1)
  /\ gaps[2].justification = "LLM Error."
  /\ llm_calls = max_retries + 1

\* embed_requirements is called on the requirements of the current file.
EmbedCall == ipc = "normalize" /\ cidx > Len(raw_chunks)

\* C15: embed_requirements does not raise and returns the items it was
\* given, in the same order and otherwise unchanged, each with an embedding:
\* a vector for every item, or the empty list for every item when the model
\* failed on the batch.
C15_EmbedKeepsItems ==
  [][ (EmbedCall /\ ipc' /= ipc) =>
        /\ ~FileFailureStep
        /\ Len(Added) = Len(document_requirements)
        /\ \A k \in 1..Len(document_requirements) :
             /\ "embedding" \in DOMAIN Added[k]
             /\ Unembedded(Added[k]) = document_requirements[k]
        /\ \/ \A k \in 1..Len(Added) : Added[k].embedding
           \/ \A k \in 1..Len(Added) : ~Added[k].embedding ]_vars

\* The batch of the first file failed, the batch of the second did not.
C15_Witness ==
  /\ fidx = Len(file_paths) + 1
  /\ failed_files = <<>>
  /\ Len(all_requirements) = 4
  /\ \A k \in 1..2 : /\ all_requirements[k].source_document = file_paths[1]
                      /\ ~all_requirements[k].embedding
  /\ \A k \in 3..4 : /\ all_requirements[k].source_document = file_paths[2]
                      /\ all_requirements[k].embedding

\* C16: a requirement that carries the empty list as its embedding counts as
\* not matching (best score 0, MISSING without an adjudicator call), and
\* verify_documents never ends by an exception in the middle of the index.
C16_SentinelNonMatchable ==
  /\ i \in 1..Len(reference_index) => pc \notin {"crashed", "error_shown"}
  /\ \A k \in 1..Len(decisions) :
       ~reference_index[k].embedding => decisions[k] = NoEvidence(0)

\* The stage of a run: 0 Idle, 1 IndexLoaded, 2 EvidenceIngested,
\* 3 Verifying, 4 Reported, 5 ended without a report.
Stage(p) ==
  CASE p = "idle" -> 0
    [] p \in {"index_loaded", "checked"} -> 1
    [] p = "sop_ingested" -> 2
    [] p \in {"verifying", "llm", "verified"} -> 3
    [] p = "reported" -> 4
    [] OTHER -> 5

\* C17: a run stays at its stage, moves to the next one or ends; it never
\* moves back and never skips a stage.  ingest_sop acts only on a run whose
\* load has returned the index under the key, verify_documents only on a
\* run whose ingest_sop has returned.
C17_StagesInOrder ==
  [][ /\ Stage(pc') \in {Stage(pc), Stage(pc) + 1, 5}
      /\ Stage(pc) \in {4, 5} => pc' = pc
      /\ (sop_store' /= sop_store \/ Stage(pc') = 2) =>
           /\ Stage(pc) = 1
           /\ disk.state = "ok"
           /\ reference_index = JsonLoads(disk.index)
      /\ (Stage(pc) = 2 /\ Stage(pc') = 5) => sop_store' = sop_store
      /\ (<<i, gaps, decisions>>' /= <<i, gaps, decisions>> \/ Stage(pc') = 3) =>
           /\ Stage(pc) \in {2, 3}
           /\ sop_store' = sop_store
           /\ reference_index' = reference_index ]_vars

\* A run that went through every stage.
C17_Witness ==
  /\ pc = "reported"
  /\ Len(reference_index) = 2
  /\ Len(sop_store) = 2
  /\ Len(decisions) = 2
  /\ adjudicator_called

\* C18: the stricter policy can be selected: in the front end that offers it
\* (app1.py, "Strict Mode") a requirement whose best retrieval score is above
\* the high threshold ends PRESENT without an adjudicator call.  (The other
\* policy, always adjudicate at or above the low threshold, is C6.)
C18_StrictPolicySelectable ==
  (frontend = "app1" /\ Completed /\ best_score > HIGH_THRESHOLD) =>
    (llm_calls = 0 /\ status = "PRESENT")

\* C19: every record of the index being built is a failure record, marked
\* as such in its id, or has a non-empty text and a non-empty embedding.
C19_ValidOrFailureRecord ==
  \A k \in 1..Len(all_requirements) :
    \/ IsFailed(all_requirements[k])
    \/ /\ all_requirements[k].full_requirement_text /= ""
       /\ all_requirements[k].embedding

ObligationStrengths == {"MUST", "SHOULD", "MAY", "UNKNOWN"}

\* C20: every record of the index being built has one of the four
\* obligation strengths as its mandatory_level.
C20_ObligationStrengthEnum ==
  \A k \in 1..Len(all_requirements) :
    all_requirements[k].mandatory_level \in ObligationStrengths

\* C21: main.py verify writes the gap report as one JSON artifact and then
\* prints its summary; whatever the gap list holds, empty or not, the
\* command completes without raising: once the report is written the run
\* ends as reported, never as crashed.
C21_ReportCompletes ==
  (frontend = "main" /\ report.written) => pc = "reported"

\* C22: after any sequence of ingest_sop calls on one engine the store holds
\* exactly the chunks of the document ingested last, in their order, and
\* nothing of an earlier document; the matrix is the one built from these
\* items alone.
C22_StoreIsLastDocument ==
  /\ Len(sop_store) = Len(sop_document)
  /\ \A k \in 1..Len(sop_store) : Unembedded(sop_store[k]) = SopItem(sop_document[k])
  /\ sop_embeddings_matrix = BuildMatrix(sop_store)

\* a second ingest_sop, of the other document, has replaced the first
C22_Witness ==
  /\ pc = "sop_ingested"
  /\ Len(sop_document) = 1
  /\ sop_document[1].source = other_sop_path
  /\ Len(sop_store) = 1
  /\ sop_embeddings_matrix = <<1>>

\* The positions _search_sop returned, and what it returned by score alone:
\* min(TOP_K, n) distinct positions, each with its own score, in descending
\* score order, no position left out scoring higher than one returned.
Chosen ==
  { search_results.results[p].chunk : p \in 1..Len(search_results.results) }

TopKByScore ==
  LET res == search_results.results
      n == Len(search_scores)
  IN /\ Len(res) = (IF n < TOP_K THEN n ELSE TOP_K)
     /\ Cardinality(Chosen) = Len(res)
     /\ \A p \in 1..Len(res) : res[p].score = search_scores[res[p].chunk]
     /\ \A p, q \in 1..Len(res) : p < q => res[p].score >= res[q].score
     /\ \A j \in (1..n) \ Chosen : \A p \in 1..Len(res) :
          search_scores[j] <= res[p].score

\* Among equal scores the smaller position is selected and listed first.
SmallerPositionFirst ==
  LET res == search_results.results
      n == Len(search_scores)
  IN /\ \A p, q \in 1..Len(res) :
          (p < q /\ res[p].score = res[q].score) => res[p].chunk < res[q].chunk
     /\ \A j \in (1..n) \ Chosen : \A p \in 1..Len(res) :
          search_scores[j] = res[p].score => res[p].chunk < j

\* C23: retrieval over n chunks returns min(K, n) chunks, K = 3, in
\* descending score order, none left out scoring higher than one returned;
\* among chunks of equal score the one at the smaller position is selected
\* and listed first.
C23_TopKStableOrder ==
  search_results.returned => (TopKByScore /\ SmallerPositionFirst)

\* A step in which normalize_text returns (no retry is pending after it).
DecomposeReturn == NormalizeAttempt /\ retry_count' = 0

\* C24: the identifiers given within one normalize_text call are a function
\* of (source, page, ordinal): the k-th requirement of a passage gets
\* source-page-k, k counted from 1, so they are pairwise distinct within the
\* passage and the same on every run over the same passage.
C24_IdsBySourcePageOrdinal ==
  [][DecomposeReturn =>
       LET chunk == raw_chunks[cidx]
       IN /\ \A k \in 1..Len(reqs') :
               ~IsFailed(reqs'[k]) =>
                 reqs'[k].requirement_id = MkId(chunk.source, chunk.page, ToString(k))
          /\ \A j, k \in 1..Len(reqs') :
               j /= k => reqs'[j].requirement_id /= reqs'[k].requirement_id]_vars

\* a passage of the second file decomposed into two requirements
C24_Witness ==
  /\ Len(reqs) = 2
  /\ reqs[1].requirement_id = MkId("B", 1, "1")
  /\ reqs[2].requirement_id = MkId("B", 1, "2")
  /\ response.json = "array"

\* C25: for each requirement the adjudicator is called at most 4 times (one
\* call and max_retries = 3 retries), whatever the failures are; every step
\* of verify_documents either uses up one of these attempts or ends the
\* requirement, and the loop position only grows, so verify_documents ends
\* on every finite index even when every call fails.
C25_AdjudicatorCallCeiling ==
  /\ [](llm_calls <= 4 /\ attempt < 4)
  /\ [][pc = "llm" =>
          /\ llm_calls' = llm_calls + 1
          /\ \/ (pc' = "llm" /\ attempt' = attempt + 1 /\ i' = i)
             \/ (pc' = "verifying" /\ i' = i + 1)]_vars
  /\ [][pc = "verifying" =>
          \/ (pc' = "llm" /\ i' = i)
          \/ (pc' = "verifying" /\ i' = i + 1)
          \/ (pc' \in {"verified", Raised} /\ i' = i)]_vars

\* verify_documents has returned on an index of two requirements, the four
\* calls for the last one having all failed
C25_Witness ==
  /\ pc = "verified"
  /\ Len(reference_index) = 2
  /\ Len(decisions) = 2
  /\ llm_calls = 4
  /\ attempt = 3
  /\ jury = LLMError

\* What the adjudicator answered for the requirement decided last (the
\* services being deterministic, memo holds it).
LastAnswer == stub.memo[reference_index[Len(decisions)]].out

Adjudicated == stub.fixed /\ jury /= NoJury /\ Len(decisions) > 0

VerifyCall == VerifyBegin \/ VerifyEarly

\* C27: whenever the reference index is empty or the evidence store is
\* empty, also before load_reference_index or before ingest_sop was called,
\* verify_documents raises: no adjudicator call is issued, no gap list is
\* built or returned, and the loop is entered only with both non-empty.
C27_VerifyNeedsIndexAndStore ==
  /\ [][(VerifyCall /\ (reference_index = <<>> \/ sop_store = <<>>)) =>
          /\ pc' = Raised
          /\ ~adjudicator_called'
          /\ llm_calls' = 0
          /\ gaps' = <<>>
          /\ ~previous'.returned]_vars
  /\ []((pc \in {"verifying", "llm"} \/ adjudicator_called \/ gaps /= <<>>) =>
          (reference_index /= <<>> /\ sop_store /= <<>>))

\* verify_documents was called before load_reference_index, the key
\* holding an index that is not empty
C27_Witness ==
  /\ pc = Raised
  /\ disk.state = "ok"
  /\ JsonLoads(disk.index) /= <<>>
  /\ reference_index = <<>>
  /\ sop_store = <<>>
  /\ ~adjudicator_called

\* C28: after every ingest_sop the matrix is empty or has exactly one row
\* per entry of sop_store, row r being built from the embedding of the r-th
\* entry; so the position _search_sop finds in the matrix addresses, in
\* sop_store, the chunk whose embedding gave the score.
C28_MatrixRowsAlignWithStore ==
  \/ sop_embeddings_matrix = <<>>
  \/ /\ Len(sop_embeddings_matrix) = Len(sop_store)
     /\ \A r \in 1..Len(sop_embeddings_matrix) :
          /\ sop_embeddings_matrix[r] = r
          /\ sop_store[r].embedding

\* a second ingest_sop has left two embedded chunks and a matrix of two rows
C28_Witness ==
  /\ pc = "sop_ingested"
  /\ Len(sop_store) = 2
  /\ sop_store[2].source = other_sop_path
  /\ sop_embeddings_matrix = <<1, 2>>

\* C29: when a build yields no requirement at all, process_and_index writes
\* nothing: what the key held before is there unchanged, the call ends
\* normally and no exception reaches the caller.
C29_NothingFoundNothingWritten ==
  /\ [](all_requirements = <<>> =>
          disk \in { [state |-> "missing", index |-> <<>>], Stored(SeedIndex) })
  /\ [][all_requirements' = <<>> => disk' = disk]_vars
  /\ [][(Persist /\ all_requirements = <<>>) => ipc' = "done"]_vars

\* the first file failed, the second gave no requirement, and the index of
\* the earlier ingestion is still under the key
C29_Witness ==
  /\ ipc = "done"
  /\ all_requirements = <<>>
  /\ failed_files = <<"A">>
  /\ disk = Stored(SeedIndex)

====
